---- MODULE Spec2Model ----
(***************************************************************************)
(* Requirement evaluation of the refactoring action rules                  *)
(* (include/clang/Tooling/Refactoring/RefactoringActionRuleRequirements.h) *)
(*                                                                         *)
(* State: the rule context's selection range, the heap of RefactoringOption*)
(* objects owned through std::shared_ptr, the requirement objects of one   *)
(* rule, and the binder that evaluates the rule's requirement tuple.       *)
(* History variables record what each evaluate call read and returned.     *)
(***************************************************************************)
EXTENDS Integers, Sequences, FiniteSets, TLC

VARIABLES
    selection,   \* RefactoringRuleContext: the selection range [B, E]
    phase,       \* "setup" (selection / options are being filled) or "eval"
    req,         \* the requirement objects, in declaration order
    heap,        \* RefactoringOption objects, by address
    binder,      \* the evaluation driver of one candidate rule
    firstResult, \* history: what the first evaluate of each requirement returned
    lastResult,  \* history: what the latest evaluate of each requirement returned
    lastRead,    \* history: the option object the latest evaluate read
    declared,    \* history: what getRefactoringOptions returned to the dispatcher
    aborted      \* the process died on a failed assertion

vars == <<selection, phase, req, heap, binder, firstResult, lastResult,
          lastRead, declared, aborted>>

\* ---------------------------------------------------------------- bounds
MaxReqs == 3
MaxOptions == 2

ReqIds == 1..MaxReqs
OptIds == 1..MaxOptions

\* Raw encodings of source locations; 0 is the invalid location.
BeginLocs == {0, 10}
EndLocs == {0, 20}
\* Values an int option can be given.
Values == {5, 7}
\* Contents the never-written storage of an empty Optional<int> may have.
GarbageVals == {0, 5}
\* Option kinds: a required and an optional int option.
OptionTypes == {"ReqInt", "OptInt"}

\* ---------------------------------------------------------------- values
RangeVal(B, E) == [tag |-> "range", a |-> B, b |-> E]
IntVal(v) == [tag |-> "int", a |-> v, b |-> 0]
SomeVal(v) == [tag |-> "some", a |-> v, b |-> 0]
NoneVal == [tag |-> "none", a |-> 0, b |-> 0]
NoVal == [tag |-> "", a |-> 0, b |-> 0]

\* llvm::Expected<T>: a success holding a value, or an error.
ExpectedValue(v) == [kind |-> "ok", val |-> v, msg |-> ""]
ExpectedError(m) == [kind |-> "err", val |-> NoVal, msg |-> m]
NoResult == [kind |-> "none", val |-> NoVal, msg |-> ""]

NoSelectionMessage == "refactoring action can't be initiated without a selection"

\* ---------------------------------------------------------------- context
\* SourceRange::isValid: both end points are valid locations.
isValid(R) == R.B # 0 /\ R.E # 0

\* RefactoringRuleContext::getSelectionRange
getSelectionRange(Context) == Context.selection

Context == [selection |-> selection]

\* ---------------------------------------------------------------- options
FreeOption == [alive |-> FALSE, kind |-> "none", st |-> "notQueried",
               v |-> 0, garbage |-> 0, refs |-> 0, resolves |-> 0]

\* createRefactoringOption<OptionType>(): a new, empty option owned by one
\* shared_ptr.  g is whatever the unwritten value storage happens to hold.
createRefactoringOption(kind, g) ==
    [alive |-> TRUE, kind |-> kind, st |-> "notQueried", v |-> 0,
     garbage |-> g, refs |-> 1, resolves |-> 0]

\* The address a new option object gets: addresses are not reused.
FreshOption == CHOOSE o \in OptIds :
                  /\ heap[o].kind = "none"
                  /\ \A p \in OptIds : p < o => heap[p].kind # "none"

HasFreshOption == \E o \in OptIds : heap[o].kind = "none"

\* OptionType::getValue applied to an unset required option dereferences an
\* empty Optional.
GetValueFaults(o) == heap[o].kind = "ReqInt" /\ heap[o].st # "set"

\* OptionType::getValue.  Optional option: the stored Optional<int>.
\* Required option: the dereferenced Optional<int>.  Dereferencing the empty
\* Optional is undefined: the read returns whatever the never-written storage
\* of this option object holds (any of GarbageVals, fixed when the object is
\* allocated), or the process aborts on the failed assertion (the action
\* BinderStepAborts).
getValue(o) ==
    IF heap[o].kind = "OptInt"
    THEN IF heap[o].st = "set" THEN SomeVal(heap[o].v) ELSE NoneVal
    ELSE IF heap[o].st = "set" THEN IntVal(heap[o].v)
         ELSE IntVal(heap[o].garbage)

\* Variant: the pointer is copied without taking ownership (a raw pointer).
SharedPtrCopy_raw(o) == heap

\* std::shared_ptr copy: one more owner.
SharedPtrCopy(o) == [heap EXCEPT ![o].refs = @ + 1]

\* std::shared_ptr destruction: one owner fewer; the last owner destroys the
\* option.
SharedPtrRelease(o) ==
    IF heap[o].refs <= 1
    THEN [heap EXCEPT ![o] = [FreeOption EXCEPT !.kind = "released"]]
    ELSE [heap EXCEPT ![o].refs = @ - 1]

\* ---------------------------------------------------------------- requirements
IsOptReq(r) == r \in DOMAIN req /\ req[r].type = "opt"
IsSelReq(r) == r \in DOMAIN req /\ req[r].type = "sel"

\* Variant: only the begin location is checked.
SourceRangeSelectionRequirement_evaluate_beginOnly(Ctx) ==
    IF getSelectionRange(Ctx).B # 0
    THEN ExpectedValue(RangeVal(getSelectionRange(Ctx).B, getSelectionRange(Ctx).E))
    ELSE ExpectedError(NoSelectionMessage)

\* Variant: the range is returned without the validity check.
SourceRangeSelectionRequirement_evaluate_unchecked(Ctx) ==
    ExpectedValue(RangeVal(getSelectionRange(Ctx).B, getSelectionRange(Ctx).E))

\* Variant: the error carries another message.
SourceRangeSelectionRequirement_evaluate_otherMessage(Ctx) ==
    IF isValid(getSelectionRange(Ctx))
    THEN ExpectedValue(RangeVal(getSelectionRange(Ctx).B, getSelectionRange(Ctx).E))
    ELSE ExpectedError("invalid selection")

\* SourceRangeSelectionRequirement::evaluate: the selection range when it is
\* valid, else the StringError.
SourceRangeSelectionRequirement_evaluate(Ctx) ==
    IF isValid(getSelectionRange(Ctx))
    THEN ExpectedValue(RangeVal(getSelectionRange(Ctx).B, getSelectionRange(Ctx).E))
    ELSE ExpectedError(NoSelectionMessage)

\* Variant: an empty ArrayRef.
OptionRequirement_getRefactoringOptions_empty(r) == <<>>

\* OptionRequirement::getRefactoringOptions: an ArrayRef over the one member
\* Opt.
OptionRequirement_getRefactoringOptions(r) == <<req[r].opt>>

\* Variant: an unset required option is reported as an error.
OptionRequirement_evaluate_checksRequired(r) ==
    IF GetValueFaults(req[r].opt)
    THEN ExpectedError("option unavailable")
    ELSE ExpectedValue(getValue(req[r].opt))

\* Variant: any option without a value is reported as an error.
OptionRequirement_evaluate_failsUnset(r) ==
    IF heap[req[r].opt].st # "set"
    THEN ExpectedError("option unavailable")
    ELSE ExpectedValue(getValue(req[r].opt))

\* Variant: a default-constructed value is returned instead of the option's.
OptionRequirement_evaluate_default(r) ==
    IF heap[req[r].opt].kind = "OptInt"
    THEN ExpectedValue(NoneVal)
    ELSE ExpectedValue(IntVal(0))

\* OptionRequirement::evaluate: the option's getValue, wrapped in a success.
OptionRequirement_evaluate(r) == ExpectedValue(getValue(req[r].opt))

\* Requirement::evaluate of whichever requirement type sits in slot r.
RequirementEvaluate(r) ==
    IF req[r].type = "sel"
    THEN SourceRangeSelectionRequirement_evaluate(Context)
    ELSE OptionRequirement_evaluate(r)

\* Variant: evaluate takes the value out of the option.
EvaluateEffect_consumes(r) ==
    /\ selection' = selection
    /\ heap' = IF req[r].type = "opt"
               THEN [heap EXCEPT ![req[r].opt].st = "unset"]
               ELSE heap

\* evaluate is a const member taking the context only to read it: it stores
\* nothing into the context or the option.
EvaluateEffect(r) == UNCHANGED <<selection, heap>>

\* Variant: the copy creates an option object of its own.
OptionRequirement_copy_deep(r) ==
    IF HasFreshOption
    THEN [opt |-> FreshOption,
          heap |-> [heap EXCEPT ![FreshOption] =
                      createRefactoringOption(heap[req[r].opt].kind,
                                              heap[req[r].opt].garbage)]]
    ELSE [opt |-> req[r].opt, heap |-> SharedPtrCopy(req[r].opt)]

\* The implicit copy constructor of OptionRequirement copies the shared_ptr:
\* the copy points at the same option, which gains an owner.
OptionRequirement_copy(r) ==
    [opt |-> req[r].opt, heap |-> SharedPtrCopy(req[r].opt)]

\* ---------------------------------------------------------------- histories
\* evaluate was called on requirement r and returned res.
RecordEval(r, res) ==
    /\ firstResult' = [firstResult EXCEPT
                         ![r] = IF @ = NoResult THEN res ELSE @]
    /\ lastResult' = [lastResult EXCEPT ![r] = res]
    /\ lastRead' = [lastRead EXCEPT ![r] = req[r].opt]

IdleBinder == [state |-> "idle", idx |-> 0, results |-> <<>>,
               evaluated |-> <<>>, ctorCalls |-> 0, ctorArgs |-> <<>>,
               err |-> NoResult]

\* ---------------------------------------------------------------- Init
Init ==
    /\ selection = [B |-> 0, E |-> 0]
    /\ phase = "setup"
    /\ req = <<>>
    /\ heap = [o \in OptIds |-> FreeOption]
    /\ binder = IdleBinder
    /\ firstResult = [r \in ReqIds |-> NoResult]
    /\ lastResult = [r \in ReqIds |-> NoResult]
    /\ lastRead = [r \in ReqIds |-> 0]
    /\ declared = [r \in ReqIds |-> <<>>]
    /\ aborted = FALSE

Quiet == ~aborted /\ binder.state = "idle"

\* ---------------------------------------------------------------- setup
\* The option resolver stores a value into a not yet queried option.
ResolveOptionSet(o, v) ==
    /\ Quiet /\ phase = "setup"
    /\ heap[o].alive /\ heap[o].st = "notQueried"
    /\ heap' = [heap EXCEPT ![o].st = "set", ![o].v = v, ![o].garbage = 0,
                            ![o].resolves = @ + 1]
    /\ UNCHANGED <<selection, phase, req, binder, firstResult,
                   lastResult, lastRead, declared, aborted>>

\* The option resolver finds the option not specified and leaves it unset.
ResolveOptionUnset(o) ==
    /\ Quiet /\ phase = "setup"
    /\ heap[o].alive /\ heap[o].st = "notQueried"
    /\ heap' = [heap EXCEPT ![o].st = "unset", ![o].resolves = @ + 1]
    /\ UNCHANGED <<selection, phase, req, binder, firstResult,
                   lastResult, lastRead, declared, aborted>>

\* The caller hands over the context of this invocation with its selection
\* range, and the dispatcher visits the options every requirement of the
\* rule declares; the setup phase ends and requirements are evaluated from
\* now on.
BeginEvaluation(B, E) ==
    /\ Quiet /\ phase = "setup"
    /\ selection' = [B |-> B, E |-> E]
    /\ phase' = "eval"
    /\ declared' = [r \in ReqIds |->
                      IF IsOptReq(r)
                      THEN OptionRequirement_getRefactoringOptions(r)
                      ELSE <<>>]
    /\ UNCHANGED <<req, heap, binder, firstResult, lastResult, lastRead,
                   aborted>>

\* ---------------------------------------------------------------- lifetime
\* SourceRangeSelectionRequirement(): a requirement without members.
ConstructSelectionRequirement ==
    /\ Quiet /\ phase = "setup" /\ Len(req) < MaxReqs
    /\ req' = Append(req, [type |-> "sel", opt |-> 0, logical |-> 0])
    /\ UNCHANGED <<selection, phase, heap, binder, firstResult,
                   lastResult, lastRead, declared, aborted>>

\* OptionRequirement() : Opt(createRefactoringOption<OptionType>())
ConstructOptionRequirement(kind, g) ==
    /\ Quiet /\ phase = "setup" /\ Len(req) < MaxReqs /\ HasFreshOption
    /\ kind = "OptInt" => g = 0
    /\ heap' = [heap EXCEPT ![FreshOption] = createRefactoringOption(kind, g)]
    /\ req' = Append(req, [type |-> "opt", opt |-> FreshOption,
                           logical |-> FreshOption])
    /\ UNCHANGED <<selection, phase, binder, firstResult, lastResult,
                   lastRead, declared, aborted>>

\* Copy construction of an OptionRequirement: the copy is one more
\* requirement of the same logical option.
CopyRequirement(r) ==
    /\ Quiet /\ phase = "setup" /\ Len(req) < MaxReqs /\ IsOptReq(r)
    /\ heap' = OptionRequirement_copy(r).heap
    /\ req' = Append(req, [type |-> "opt",
                           opt |-> OptionRequirement_copy(r).opt,
                           logical |-> req[r].logical])
    /\ UNCHANGED <<selection, phase, binder, firstResult, lastResult,
                   lastRead, declared, aborted>>

\* Destruction of a requirement; an OptionRequirement drops its shared_ptr.
DiscardRequirement(r) ==
    /\ Quiet /\ phase = "setup" /\ r \in DOMAIN req
    /\ req' = SubSeq(req, 1, r - 1) \o SubSeq(req, r + 1, Len(req))
    /\ heap' = IF req[r].type = "opt" THEN SharedPtrRelease(req[r].opt)
               ELSE heap
    /\ UNCHANGED <<selection, phase, binder, firstResult, lastResult,
                   lastRead, declared, aborted>>

\* ---------------------------------------------------------------- binder
\* The binder takes up the candidate rule, whose requirement tuple is req.
BinderStart ==
    /\ Quiet /\ phase = "eval" /\ req # <<>>
    /\ binder' = [IdleBinder EXCEPT !.state = "running", !.idx = 1]
    /\ UNCHANGED <<selection, phase, req, heap, firstResult,
                   lastResult, lastRead, declared, aborted>>

\* The binder's transition on the result res of requirement i of n: stop at
\* a failure; after the last success call the rule's constructor with the
\* values in declaration order.
BinderAdvance(b, i, n, res) ==
    IF res.kind = "err"
    THEN [b EXCEPT !.state = "failed", !.err = res,
                   !.evaluated = Append(@, i), !.results = Append(@, res)]
    ELSE IF i = n
    THEN [b EXCEPT !.state = "constructed",
                   !.evaluated = Append(@, i), !.results = Append(@, res),
                   !.ctorCalls = @ + 1,
                   !.ctorArgs = [k \in 1..i |-> Append(b.results, res)[k].val]]
    ELSE [b EXCEPT !.idx = i + 1,
                   !.evaluated = Append(@, i), !.results = Append(@, res)]

\* The binder evaluates the next requirement of the tuple.
BinderStep ==
    /\ ~aborted /\ binder.state = "running"
    /\ RecordEval(binder.idx, RequirementEvaluate(binder.idx))
    /\ EvaluateEffect(binder.idx)
    /\ binder' = BinderAdvance(binder, binder.idx, Len(req),
                               RequirementEvaluate(binder.idx))
    /\ UNCHANGED <<phase, req, declared, aborted>>

\* The evaluate call of the binder's next requirement dereferences the empty
\* Optional of an unset required option in a build with assertions: the
\* process aborts.
BinderStepAborts ==
    /\ ~aborted /\ binder.state = "running"
    /\ IsOptReq(binder.idx)
    /\ GetValueFaults(req[binder.idx].opt)
    /\ aborted' = TRUE
    /\ UNCHANGED <<selection, phase, req, heap, binder, firstResult,
                   lastResult, lastRead, declared>>

\* The caller takes the binder's outcome; the next candidate rule starts
\* afresh.
BinderFinish ==
    /\ ~aborted /\ binder.state \in {"constructed", "failed"}
    /\ binder' = IdleBinder
    /\ UNCHANGED <<selection, phase, req, heap, firstResult,
                   lastResult, lastRead, declared, aborted>>

\* ---------------------------------------------------------------- Next
Next ==
    \/ \E o \in OptIds, v \in Values : ResolveOptionSet(o, v)
    \/ \E o \in OptIds : ResolveOptionUnset(o)
    \/ \E B \in BeginLocs, E \in EndLocs : BeginEvaluation(B, E)
    \/ ConstructSelectionRequirement
    \/ \E k \in OptionTypes, g \in GarbageVals : ConstructOptionRequirement(k, g)
    \/ \E r \in ReqIds : CopyRequirement(r)
    \/ \E r \in ReqIds : DiscardRequirement(r)
    \/ BinderStart
    \/ BinderStep
    \/ BinderStepAborts
    \/ BinderFinish

Spec == Init /\ [][Next]_vars

\* ---------------------------------------------------------------- claims
\* C1: SourceRangeSelectionRequirement.evaluate succeeds iff the context's
\* selection range is valid; on success it returns exactly that range, and
\* otherwise the failure with the fixed "can't be initiated without a
\* selection" message.
C1_SelectionEvaluate ==
    \A r \in DOMAIN req :
        (req[r].type = "sel" /\ lastResult[r] # NoResult) =>
            /\ (lastResult[r].kind = "ok") <=>
                   (selection.B # 0 /\ selection.E # 0)
            /\ lastResult[r].kind = "ok" =>
                   lastResult[r].val =
                       [tag |-> "range", a |-> selection.B, b |-> selection.E]
            /\ lastResult[r].kind # "ok" =>
                   lastResult[r] =
                       [kind |-> "err", val |-> NoVal,
                        msg |-> "refactoring action can't be initiated without a selection"]

C1_Witness ==
    \E r \in DOMAIN req :
        /\ req[r].type = "sel"
        /\ selection = [B |-> 10, E |-> 20]
        /\ lastResult[r].kind = "ok"

\* C2: the binder evaluates the requirements left to right in declaration
\* order, and once a requirement has failed no later requirement is
\* evaluated and the rule constructor is not invoked.
C2_ShortCircuit ==
    /\ binder.evaluated = [i \in 1..Len(binder.evaluated) |-> i]
    /\ Len(binder.results) = Len(binder.evaluated)
    /\ \A i \in 1..Len(binder.results) :
           binder.results[i].kind = "err" =>
               /\ i = Len(binder.evaluated)
               /\ binder.state = "failed"
               /\ binder.ctorCalls = 0
    /\ \A i \in 1..Len(binder.evaluated) :
           (req[i].type = "sel" /\ (selection.B = 0 \/ selection.E = 0)) =>
               /\ i = Len(binder.evaluated)
               /\ binder.ctorCalls = 0

C2_Witness ==
    /\ Len(req) = 3
    /\ binder.state = "failed"
    /\ binder.evaluated = <<1, 2>>
    /\ binder.results[2].kind = "err"

\* C3: when every requirement of the tuple succeeds the binder invokes the
\* rule constructor exactly once, with the values the requirements evaluated
\* to, in declaration order; selection [10,20) and a required int option
\* resolved to 5 give Rule(SelectionRange{10,20}, 5).
C3_ConstructorCall ==
    /\ binder.ctorCalls <= 1
    /\ (binder.state = "constructed") <=> (binder.ctorCalls = 1)
    /\ binder.state = "failed" =>
           \E i \in 1..Len(binder.results) : binder.results[i].kind = "err"
    /\ binder.state = "constructed" =>
           /\ Len(binder.ctorArgs) = Len(req)
           /\ Len(binder.results) = Len(req)
           /\ \A i \in DOMAIN req :
                  /\ binder.results[i].kind = "ok"
                  /\ binder.ctorArgs[i] = binder.results[i].val
                  /\ req[i].type = "sel" =>
                         binder.ctorArgs[i] =
                             RangeVal(selection.B, selection.E)
                  /\ (req[i].type = "opt" /\ heap[req[i].opt].st = "set") =>
                         binder.ctorArgs[i] =
                             IF heap[req[i].opt].kind = "ReqInt"
                             THEN IntVal(heap[req[i].opt].v)
                             ELSE SomeVal(heap[req[i].opt].v)

C3_Witness ==
    /\ binder.state = "constructed"
    /\ Len(req) = 2
    /\ req[1].type = "sel" /\ req[2].type = "opt"
    /\ heap[req[2].opt].kind = "ReqInt"
    /\ binder.ctorArgs = <<RangeVal(10, 20), IntVal(5)>>

\* C4: when a requirement fails, the binder's result is, unmodified, the
\* error of the first failing requirement and no rule is constructed; an
\* invalid selection with an option resolved to 5 gives the NoSelection
\* failure.
C4_FirstFailureVerbatim ==
    /\ binder.state = "failed" =>
           /\ binder.evaluated # <<>>
           /\ binder.err = binder.results[Len(binder.results)]
           /\ binder.err.kind = "err"
           /\ \A i \in 1..(Len(binder.results) - 1) :
                  binder.results[i].kind = "ok"
           /\ binder.ctorCalls = 0
           /\ binder.ctorArgs = <<>>
           /\ req[Len(binder.results)].type = "sel"
           /\ binder.err =
                  [kind |-> "err", val |-> NoVal,
                   msg |-> "refactoring action can't be initiated without a selection"]
    /\ binder.state = "constructed" =>
           \A i \in 1..Len(binder.results) : binder.results[i].kind = "ok"
    /\ (binder.state \in {"failed", "constructed"}
          /\ (selection.B = 0 \/ selection.E = 0)
          /\ \E i \in DOMAIN req : req[i].type = "sel") =>
           binder.state = "failed"

C4_Witness ==
    /\ binder.state = "failed"
    /\ Len(req) = 2
    /\ req[1].type = "sel" /\ req[2].type = "opt"
    /\ heap[req[2].opt].st = "set" /\ heap[req[2].opt].v = 5
    /\ binder.err.msg = NoSelectionMessage

\* C5 as stated: evaluating the requirement of a required option the
\* resolver left unset yields a failure.
C5_RequiredUnsetIsFailure ==
    \A r \in DOMAIN req :
        (/\ req[r].type = "opt"
         /\ heap[req[r].opt].kind = "ReqInt"
         /\ heap[req[r].opt].st = "unset"
         /\ lastResult[r] # NoResult) =>
            lastResult[r].kind = "err"

\* C5 amended: OptionRequirement.evaluate checks no required-ness and never
\* returns a failure; for a required option it returns a success holding an
\* int, which is the stored value when the option is set (an unset required
\* option yields an indeterminate int or aborts the process).
C5_RequiredNeverFails ==
    /\ \A r \in DOMAIN req :
           (/\ req[r].type = "opt"
            /\ heap[req[r].opt].kind = "ReqInt"
            /\ lastResult[r] # NoResult) =>
               /\ lastResult[r].kind = "ok"
               /\ lastResult[r].val.tag = "int"
               /\ heap[req[r].opt].st = "set" =>
                      lastResult[r].val.a = heap[req[r].opt].v
    /\ aborted =>
           \E r \in DOMAIN req :
               /\ req[r].type = "opt"
               /\ heap[req[r].opt].kind = "ReqInt"
               /\ heap[req[r].opt].st # "set"

C5_Witness ==
    \E r \in DOMAIN req :
        /\ req[r].type = "opt"
        /\ heap[req[r].opt].kind = "ReqInt"
        /\ heap[req[r].opt].st = "unset"
        /\ lastResult[r].kind = "ok"

\* C6: for an optional option evaluate always returns a success: None when
\* the option was not specified, the specified value otherwise.
C6_OptionalAlwaysSucceeds ==
    \A r \in DOMAIN req :
        (/\ req[r].type = "opt"
         /\ heap[req[r].opt].kind = "OptInt"
         /\ lastResult[r] # NoResult) =>
            lastResult[r] =
                [kind |-> "ok",
                 val |-> IF heap[req[r].opt].st = "set"
                         THEN [tag |-> "some", a |-> heap[req[r].opt].v,
                               b |-> 0]
                         ELSE [tag |-> "none", a |-> 0, b |-> 0],
                 msg |-> ""]

C6_Witness ==
    \E r \in DOMAIN req :
        /\ req[r].type = "opt"
        /\ heap[req[r].opt].kind = "OptInt"
        /\ heap[req[r].opt].st = "unset"
        /\ lastResult[r].kind = "ok"

C8_EvaluateLeavesStateUnchanged ==
    [][/\ Len(binder'.evaluated) > Len(binder.evaluated) =>
              (selection' = selection /\ heap' = heap)
       /\ \A r \in ReqIds :
              lastResult[r] # NoResult =>
                  /\ lastResult'[r] = lastResult[r]
                  /\ firstResult'[r] = firstResult[r]
                  /\ firstResult[r] = lastResult[r]]_vars

\* A second run of the binder has evaluated requirement 1 again while the
\* result of requirement 2 is still the one of the first run.
C8_Witness ==
    /\ binder.state = "running"
    /\ binder.idx = 2
    /\ lastResult[1] # NoResult
    /\ lastResult[2] # NoResult

\* C9: getRefactoringOptions of an OptionRequirement returns exactly one
\* element, the option object whose value the requirement's evaluate
\* returns, before and after resolution and after evaluations.
C9_DeclaredOptionIsEvaluatedOption ==
    \A r \in DOMAIN req :
        req[r].type = "opt" =>
            /\ Len(OptionRequirement_getRefactoringOptions(r)) = 1
            /\ OptionRequirement_getRefactoringOptions(r)[1] \in OptIds
            /\ heap[OptionRequirement_getRefactoringOptions(r)[1]].alive
            /\ phase = "eval" =>
                   declared[r] = OptionRequirement_getRefactoringOptions(r)
            /\ lastResult[r] # NoResult =>
                   /\ lastRead[r] = declared[r][1]
                   /\ heap[declared[r][1]].st = "set" =>
                          lastResult[r].val.a = heap[declared[r][1]].v

C9_Witness ==
    \E r \in DOMAIN req :
        /\ req[r].type = "opt"
        /\ Len(declared[r]) = 1
        /\ heap[declared[r][1]].st = "set"
        /\ lastResult[r].kind = "ok"

\* C10: an option referenced by a requirement is alive, so evaluate never
\* reads a released option; an option is released exactly when its last
\* referencing requirement is discarded, and its owner count is the number
\* of requirements referencing it.
C10_SharedOwnership ==
    /\ \A r \in DOMAIN req :
           req[r].type = "opt" =>
               /\ req[r].opt \in OptIds
               /\ heap[req[r].opt].alive
               /\ lastResult[r] # NoResult => heap[lastRead[r]].alive
    /\ \A o \in OptIds :
           LET owners == {r \in DOMAIN req :
                             req[r].type = "opt" /\ req[r].opt = o}
           IN /\ heap[o].alive <=> owners # {}
              /\ heap[o].refs = Cardinality(owners)
              /\ (heap[o].kind = "released") => owners = {}

C10_Witness ==
    \E o, p \in OptIds :
        /\ heap[o].kind = "released"
        /\ heap[p].alive /\ heap[p].refs >= 2
        /\ \E r \in DOMAIN req : req[r].opt = p /\ lastResult[r] # NoResult

====
